---- MODULE Spec2Model ----
(***************************************************************************)
(* Conversation session store and prompt-assembly pipeline of app.py:      *)
(* ConversationManager (get_context / update_context over a Redis key with *)
(* expiry), detect_language, BusinessContext.get_system_prompt and         *)
(* generate_response.                                                      *)
(*                                                                         *)
(* Strings that the code inspects character by character (the detection    *)
(* output, language codes) are sequences of one-character strings.  Python *)
(* None and the empty string are both falsy and are both written <<>>.     *)
(***************************************************************************)
EXTENDS Integers, Sequences, FiniteSets, TLC

(***************************************************************************)
(* Bounds of the model.                                                    *)
(***************************************************************************)
MaxRequests == 2
MaxTTLRequests == 3
MaxSeqRequests == 11
MaxTime == 5400
MaxPutCalls == 4
MaxAtomicRequests == 4
MaxLongRequests == 11

Procs == {"p1", "p2"}
Users == {"u1", "u2"}
Messages == {"m1", "m2"}
Replies == {"r1"}

(***************************************************************************)
(* Program constants.                                                      *)
(***************************************************************************)
context_ttl == 3600
HISTORY_LIMIT == 10
WINDOW == 5

None == <<>>

en == <<"e", "n">>
ar == <<"a", "r">>
fr == <<"f", "r">>
sw == <<"s", "w">>
ha == <<"h", "a">>
yo == <<"y", "o">>
am == <<"a", "m">>
zu == <<"z", "u">>
pt == <<"p", "t">>

LANGUAGE_MAP ==
    (en :> "English") @@ (ar :> "Arabic") @@ (fr :> "French") @@
    (sw :> "Swahili") @@ (ha :> "Hausa") @@ (yo :> "Yoruba") @@
    (am :> "Amharic") @@ (zu :> "Zulu") @@ (pt :> "Portuguese")

APOLOGY == "Sorry, I'm having trouble responding. Please try again later."

(***************************************************************************)
(* str.strip() and str.lower() on sequences of characters.                 *)
(***************************************************************************)
UpperChars == <<"A", "B", "C", "D", "E", "F", "G", "H", "I", "J", "K", "L", "M",
                "N", "O", "P", "Q", "R", "S", "T", "U", "V", "W", "X", "Y", "Z">>
LowerChars == <<"a", "b", "c", "d", "e", "f", "g", "h", "i", "j", "k", "l", "m",
                "n", "o", "p", "q", "r", "s", "t", "u", "v", "w", "x", "y", "z">>
Whitespace == {" ", "\n", "\t"}

LowerChar(c) ==
    IF \E i \in 1..Len(UpperChars) : UpperChars[i] = c
    THEN LowerChars[CHOOSE i \in 1..Len(UpperChars) : UpperChars[i] = c]
    ELSE c

lower(s) == [i \in 1..Len(s) |-> LowerChar(s[i])]

RECURSIVE lstrip(_)
lstrip(s) ==
    IF s # <<>> /\ Head(s) \in Whitespace THEN lstrip(Tail(s)) ELSE s

RECURSIVE rstrip(_)
rstrip(s) ==
    IF s # <<>> /\ s[Len(s)] \in Whitespace
    THEN rstrip(SubSeq(s, 1, Len(s) - 1))
    ELSE s

strip(s) == rstrip(lstrip(s))

(***************************************************************************)
(* Python slicing seq[-n:] : the last n elements, or all of them.          *)
(***************************************************************************)
LastN(s, n) == IF Len(s) <= n THEN s ELSE SubSeq(s, Len(s) - n + 1, Len(s))

(***************************************************************************)
(* json.dumps / json.loads of a context dict.  The text is modelled as the *)
(* sequence of its key/value members in the dict's insertion order; a turn *)
(* is the sequence of its three members.                                   *)
(***************************************************************************)
dumps_turn(t) ==
    << <<"timestamp", t.timestamp>>, <<"user", t.user>>, <<"assistant", t.assistant>> >>

Member(obj, k) == obj[CHOOSE i \in 1..Len(obj) : obj[i][1] = k][2]

loads_turn(j) ==
    [timestamp |-> Member(j, "timestamp"),
     user      |-> Member(j, "user"),
     assistant |-> Member(j, "assistant")]

json_dumps(c) ==
    << <<"messages", [i \in 1..Len(c.messages) |-> dumps_turn(c.messages[i])]>>,
       <<"language", c.language>>,
       <<"business_context", c.business_context>> >>

\* Mutant: the stored language is not read back.
json_loads_DropLanguage(j) ==
    [messages |-> [i \in 1..Len(Member(j, "messages")) |->
                       loads_turn(Member(j, "messages")[i])],
     language |-> <<"e", "n">>,
     business_context |-> Member(j, "business_context")]

json_loads(j) ==
    [messages |-> [i \in 1..Len(Member(j, "messages")) |->
                       loads_turn(Member(j, "messages")[i])],
     language |-> Member(j, "language"),
     business_context |-> Member(j, "business_context")]

(***************************************************************************)
(* BusinessContext: the static profile and the rendered system prompt.     *)
(* The rendered text is modelled as the sequence of its template slots.    *)
(***************************************************************************)
BusinessInfo ==
    [name |-> "Demo Store",
     products |-> <<"Product A", "Product B">>,
     faq |-> <<"shipping", "payment", "returns">>,
     working_hours |-> "Monday-Saturday, 9AM-6PM"]

LanguageName(language) ==
    IF language \in DOMAIN LANGUAGE_MAP THEN LANGUAGE_MAP[language] ELSE "English"

get_system_prompt(language) ==
    << "You are a helpful sales assistant for ", BusinessInfo.name,
       "Respond in ", LanguageName(language),
       "Products: ", BusinessInfo.products,
       "FAQ: ", BusinessInfo.faq,
       "Working Hours: ", BusinessInfo.working_hours >>

(***************************************************************************)
(* The Redis store: a dict from key to [value, expire_at].  A key whose    *)
(* lifetime has run out is not in the domain.                              *)
(***************************************************************************)
\* Mutant: the key does not include the phone number.
Key_Shared(phone_number) == <<"context:">>

Key(phone_number) == <<"context:", phone_number>>

redis_get(db, t, key) ==
    IF key \in DOMAIN db /\ db[key].expire_at > t THEN db[key].value ELSE None

redis_setex(db, t, key, ttl, value) ==
    [k \in DOMAIN db \cup {key} |->
        IF k = key THEN [value |-> value, expire_at |-> t + ttl] ELSE db[k]]

Expire(db, t) ==
    [k \in {x \in DOMAIN db : db[x].expire_at > t} |-> db[k]]

(***************************************************************************)
(* ConversationManager.                                                    *)
(***************************************************************************)
DefaultContext == [messages |-> <<>>, language |-> en, business_context |-> <<>>]

\* Mutant: the default session is written back when the key is absent.
get_context_WriteBack(db, t, phone_number) ==
    LET context == redis_get(db, t, Key(phone_number))
    IN  [ret |-> IF context # None THEN json_loads(context) ELSE DefaultContext,
         db  |-> IF context # None THEN db
                 ELSE redis_setex(db, t, Key(phone_number), context_ttl,
                                  json_dumps(DefaultContext))]

\* get_context: the value returned and the store it leaves behind.
get_context(db, t, phone_number) ==
    LET context == redis_get(db, t, Key(phone_number))
    IN  [ret |-> IF context # None THEN json_loads(context) ELSE DefaultContext,
         db  |-> db]

\* Mutant: the two texts of a turn are stored under each other's key.
Turn_Swapped(t, message, response) ==
    [timestamp |-> t, user |-> response, assistant |-> message]

\* update_context lines 58-62: the new turn.
Turn(t, message, response) ==
    [timestamp |-> t, user |-> message, assistant |-> response]

\* Mutant: the history is never cut.
Truncate_Never(messages) == messages

\* Mutant: messages[:10], keeping the oldest ten.
Truncate_KeepOldest(messages) ==
    IF Len(messages) <= HISTORY_LIMIT THEN messages
    ELSE SubSeq(messages, 1, HISTORY_LIMIT)

Truncate(messages) == LastN(messages, HISTORY_LIMIT)

\* Mutant: the language argument is ignored.
SetLanguage_Never(context, language) == context

\* Mutant: the language argument is stored whether or not it is empty.
SetLanguage_Always(context, language) ==
    [context EXCEPT !.language = language]

SetLanguage(context, language) ==
    IF language # None THEN [context EXCEPT !.language = language] ELSE context

\* update_context lines 58-65: the context to be written, from the one read.
update_context_build(context, t, message, response, language) ==
    SetLanguage(
        [context EXCEPT !.messages =
            Truncate(Append(context.messages, Turn(t, message, response)))],
        language)

\* Mutant: the lifetime is set when the key is created and kept afterwards.
update_context_store_KeepTTL(db, t, phone_number, context) ==
    IF Key(phone_number) \in DOMAIN db
    THEN [db EXCEPT ![Key(phone_number)].value = json_dumps(context)]
    ELSE redis_setex(db, t, Key(phone_number), context_ttl, json_dumps(context))

\* Mutant: the lifetime is given in minutes where seconds are expected.
update_context_store_Minutes(db, t, phone_number, context) ==
    redis_setex(db, t, Key(phone_number), context_ttl * 60, json_dumps(context))

\* Mutant: the new turn is appended to the history found in the store at the
\* time of the write (an atomic append), not to the one read at line 57.
update_context_store_Merge(db, t, phone_number, context) ==
    LET current == get_context(db, t, phone_number).ret
        turn == context.messages[Len(context.messages)]
    IN  redis_setex(db, t, Key(phone_number), context_ttl,
                    json_dumps([context EXCEPT !.messages =
                                   Truncate(Append(current.messages, turn))]))

\* update_context line 66.
update_context_store(db, t, phone_number, context) ==
    redis_setex(db, t, Key(phone_number), context_ttl, json_dumps(context))

\* update_context lines 56-66 as one call: read, append, cut, set the
\* language, write with a fresh lifetime.
update_context(db, t, phone_number, message, response, language) ==
    LET got == get_context(db, t, phone_number)
    IN  update_context_store(got.db, t, phone_number,
            update_context_build(got.ret, t, message, response, language))

(***************************************************************************)
(* detect_language: outcome is what the detection call produced, either    *)
(* the raw content of its reply or a failure.                              *)
(***************************************************************************)
DetectOutcomes ==
    { [ok |-> TRUE,  content |-> fr],
      [ok |-> TRUE,  content |-> <<" ", "S", "W", "\n">>],
      [ok |-> TRUE,  content |-> <<"e", "s">>],
      [ok |-> FALSE, content |-> None] }

\* The outcomes used where requests run concurrently: a supported code that
\* needs normalising, and a failure.
ConcurrentOutcomes ==
    { [ok |-> TRUE,  content |-> <<" ", "S", "W", "\n">>],
      [ok |-> FALSE, content |-> None] }

\* Mutant: the normalised code is returned without the LANGUAGE_MAP test.
detect_language_Unchecked(outcome) ==
    IF outcome.ok THEN lower(strip(outcome.content)) ELSE en

detect_language(outcome) ==
    IF outcome.ok
    THEN LET lang_code == lower(strip(outcome.content))
         IN  IF lang_code \in DOMAIN LANGUAGE_MAP THEN lang_code ELSE en
    ELSE en

(***************************************************************************)
(* generate_response, pure parts.                                          *)
(***************************************************************************)
\* Mutant: only the language is tested, not the length of the history.
NeedsDetection_LanguageOnly(context) == context.language = None

\* Mutant: the language is detected again on every request.
NeedsDetection_Always(context) == TRUE

NeedsDetection(context) ==
    context.language = None \/ Len(context.messages) = 0

\* Mutant: the whole stored history is sent.
Window_All(messages) == messages

Window(messages) == LastN(messages, WINDOW)

RECURSIVE Flatten(_)
Flatten(turns) ==
    IF turns = <<>> THEN <<>>
    ELSE << [role |-> "user", content |-> Head(turns).user],
            [role |-> "assistant", content |-> Head(turns).assistant] >>
         \o Flatten(Tail(turns))

build_messages(context, message) ==
    << [role |-> "system", content |-> get_system_prompt(context.language)] >>
    \o Flatten(Window(context.messages))
    \o << [role |-> "user", content |-> message] >>

(***************************************************************************)
(* State.                                                                  *)
(*   now      the clock (seconds)                                          *)
(*   redis    the store                                                    *)
(*   pc       each worker's position in generate_response                  *)
(*   frame    each worker's locals                                         *)
(*   result   what generate_response returned ("" while running)           *)
(*   nreq     number of requests started                                   *)
(* History variables, read by the properties only:                         *)
(*   obs      per request: capability calls made, the session as read at   *)
(*            line 118, the detection outcome, the step that failed, the   *)
(*            turn update_context appended                                 *)
(*   putLog   per user: the turns written by completed puts, in order      *)
(*   lastPut  per user: the time of the last completed put (-1: none)      *)
(***************************************************************************)
VARIABLES now, redis, pc, frame, result, nreq, obs, putLog, lastPut

vars == <<now, redis, pc, frame, result, nreq, obs, putLog, lastPut>>

NoTurn == Turn(0, "", "")

EmptyFrame ==
    [phone_number |-> "", message |-> "", context |-> DefaultContext,
     messages |-> <<>>, ai_response |-> "", put_context |-> DefaultContext]

NoCalls == [get |-> 0, detect |-> 0, model |-> 0, put_get |-> 0, setex |-> 0]

EmptyObs ==
    [calls |-> NoCalls, session |-> DefaultContext,
     outcome |-> [ok |-> FALSE, content |-> None],
     failed |-> "", wrote |-> NoTurn]

Called(p, what) == [obs EXCEPT ![p].calls[what] = @ + 1]

Init ==
    /\ now = 0
    /\ redis = <<>>
    /\ pc = [p \in Procs |-> "idle"]
    /\ frame = [p \in Procs |-> EmptyFrame]
    /\ result = [p \in Procs |-> ""]
    /\ nreq = 0
    /\ obs = [p \in Procs |-> EmptyObs]
    /\ putLog = [u \in Users |-> <<>>]
    /\ lastPut = [u \in Users |-> -1]

\* webhook -> generate_response(message, phone_number): a request arrives.
Receive(p, phone_number, message, limit) ==
    /\ pc[p] = "idle"
    /\ nreq < limit
    /\ nreq' = nreq + 1
    /\ frame' = [frame EXCEPT ![p] =
                    [EmptyFrame EXCEPT !.phone_number = phone_number,
                                       !.message = message]]
    /\ pc' = [pc EXCEPT ![p] = "get_context"]
    /\ UNCHANGED <<now, redis, result, obs, putLog, lastPut>>

\* Mutant: the except branch records the apology as a turn of the session.
Degrade_PersistApology(p, step) ==
    /\ result' = [result EXCEPT ![p] = APOLOGY]
    /\ pc' = [pc EXCEPT ![p] = "done"]
    /\ obs' = [obs EXCEPT ![p].calls[step] = @ + 1, ![p].failed = step]
    /\ redis' = update_context_store(redis, now, frame[p].phone_number,
                    update_context_build(
                        get_context(redis, now, frame[p].phone_number).ret, now,
                        frame[p].message, APOLOGY, frame[p].context.language))
    /\ UNCHANGED <<frame, putLog, lastPut>>

\* Mutant: a failed model call is tried once more before giving up.
Degrade_Retry(p, step) ==
    IF step = "model" /\ obs[p].calls.model = 0
    THEN /\ obs' = [obs EXCEPT ![p].calls[step] = @ + 1]
         /\ UNCHANGED <<pc, result, redis, frame, putLog, lastPut>>
    ELSE /\ result' = [result EXCEPT ![p] = APOLOGY]
         /\ pc' = [pc EXCEPT ![p] = "done"]
         /\ obs' = [obs EXCEPT ![p].calls[step] = @ + 1, ![p].failed = step]
         /\ UNCHANGED <<redis, frame, putLog, lastPut>>

\* Mutant: the except branch catches failures of the model call only; a
\* storage failure leaves generate_response as an exception.
Degrade_Propagate(p, step) ==
    /\ result' = [result EXCEPT ![p] = IF step = "model" THEN APOLOGY ELSE "raised"]
    /\ pc' = [pc EXCEPT ![p] = "done"]
    /\ obs' = [obs EXCEPT ![p].calls[step] = @ + 1, ![p].failed = step]
    /\ UNCHANGED <<redis, frame, putLog, lastPut>>

\* Lines 140-142: the except branch of generate_response, entered when the
\* capability call `step` raised.
Degrade(p, step) ==
    /\ result' = [result EXCEPT ![p] = APOLOGY]
    /\ pc' = [pc EXCEPT ![p] = "done"]
    /\ obs' = [obs EXCEPT ![p].calls[step] = @ + 1, ![p].failed = step]
    /\ UNCHANGED <<redis, frame, putLog, lastPut>>

\* Lines 118-119 and, when no detection is needed, 122-128.
ReadSession(p) ==
    /\ pc[p] = "get_context"
    /\ LET got == get_context(redis, now, frame[p].phone_number)
           context == got.ret
       IN  /\ redis' = got.db
           /\ obs' = [obs EXCEPT ![p].calls.get = @ + 1, ![p].session = context]
           /\ IF NeedsDetection(context)
              THEN /\ frame' = [frame EXCEPT ![p].context = context]
                   /\ pc' = [pc EXCEPT ![p] = "detect"]
              ELSE /\ frame' = [frame EXCEPT
                                   ![p].context = context,
                                   ![p].messages =
                                       build_messages(context, frame[p].message)]
                   /\ pc' = [pc EXCEPT ![p] = "invoke"]
    /\ UNCHANGED <<now, result, nreq, putLog, lastPut>>

\* Line 118 raising (storage unreachable).
ReadSessionFail(p) ==
    /\ pc[p] = "get_context"
    /\ Degrade(p, "get")
    /\ UNCHANGED <<now, nreq>>

\* Line 120 (detect_language never raises), then 122-128.
DetectLanguage(p, outcome) ==
    /\ pc[p] = "detect"
    /\ LET context == [frame[p].context EXCEPT !.language = detect_language(outcome)]
       IN  frame' = [frame EXCEPT
                        ![p].context = context,
                        ![p].messages = build_messages(context, frame[p].message)]
    /\ obs' = [obs EXCEPT ![p].calls.detect = @ + 1, ![p].outcome = outcome]
    /\ pc' = [pc EXCEPT ![p] = "invoke"]
    /\ UNCHANGED <<now, redis, result, nreq, putLog, lastPut>>

\* Lines 130-137: the model call returns ai_response.
Invoke(p, ai_response) ==
    /\ pc[p] = "invoke"
    /\ frame' = [frame EXCEPT ![p].ai_response = ai_response]
    /\ obs' = Called(p, "model")
    /\ pc' = [pc EXCEPT ![p] = "put_get"]
    /\ UNCHANGED <<now, redis, result, nreq, putLog, lastPut>>

\* Lines 130-137 raising.
InvokeFail(p) ==
    /\ pc[p] = "invoke"
    /\ Degrade(p, "model")
    /\ UNCHANGED <<now, nreq>>

\* update_context lines 57-65, called from line 138.
PutLoad(p) ==
    /\ pc[p] = "put_get"
    /\ LET got == get_context(redis, now, frame[p].phone_number)
       IN  /\ redis' = got.db
           /\ frame' = [frame EXCEPT ![p].put_context =
                            update_context_build(got.ret, now, frame[p].message,
                                                 frame[p].ai_response,
                                                 frame[p].context.language)]
    /\ obs' = [obs EXCEPT ![p].calls.put_get = @ + 1,
                          ![p].wrote = Turn(now, frame[p].message, frame[p].ai_response)]
    /\ pc' = [pc EXCEPT ![p] = "put_setex"]
    /\ UNCHANGED <<now, result, nreq, putLog, lastPut>>

\* update_context line 57 raising.
PutLoadFail(p) ==
    /\ pc[p] = "put_get"
    /\ Degrade(p, "put_get")
    /\ UNCHANGED <<now, nreq>>

\* update_context line 66, then line 139.
PutStore(p) ==
    /\ pc[p] = "put_setex"
    /\ LET u == frame[p].phone_number
       IN  /\ redis' = update_context_store(redis, now, u, frame[p].put_context)
           /\ putLog' = [putLog EXCEPT ![u] = Append(@, obs[p].wrote)]
           /\ lastPut' = [lastPut EXCEPT ![u] = now]
    /\ obs' = Called(p, "setex")
    /\ result' = [result EXCEPT ![p] = frame[p].ai_response]
    /\ pc' = [pc EXCEPT ![p] = "done"]
    /\ UNCHANGED <<now, frame, nreq>>

\* update_context line 66 raising.
PutStoreFail(p) ==
    /\ pc[p] = "put_setex"
    /\ Degrade(p, "setex")
    /\ UNCHANGED <<now, nreq>>

\* The reply has been handed to the webhook; the worker is free again.
Return(p) ==
    /\ pc[p] = "done"
    /\ pc' = [pc EXCEPT ![p] = "idle"]
    /\ frame' = [frame EXCEPT ![p] = EmptyFrame]
    /\ result' = [result EXCEPT ![p] = ""]
    /\ obs' = [obs EXCEPT ![p] = EmptyObs]
    /\ UNCHANGED <<now, redis, nreq, putLog, lastPut>>

\* Mutant: the put appends to the session the request read at line 118 and
\* does not load it again.
PutAtomic_Stale(p) ==
    /\ pc[p] = "put_get"
    /\ LET u == frame[p].phone_number
           turn == Turn(now, frame[p].message, frame[p].ai_response)
           context == update_context_build(obs[p].session, now, frame[p].message,
                                           frame[p].ai_response,
                                           frame[p].context.language)
       IN  /\ redis' = update_context_store(redis, now, u, context)
           /\ frame' = [frame EXCEPT ![p].put_context = context]
           /\ obs' = [obs EXCEPT ![p].calls.put_get = @ + 1,
                                 ![p].calls.setex = @ + 1,
                                 ![p].wrote = turn]
           /\ putLog' = [putLog EXCEPT ![u] = Append(@, turn)]
           /\ lastPut' = [lastPut EXCEPT ![u] = now]
    /\ result' = [result EXCEPT ![p] = frame[p].ai_response]
    /\ pc' = [pc EXCEPT ![p] = "done"]
    /\ UNCHANGED <<now, nreq>>

\* Lines 138-139 with update_context (lines 56-66) executed as one
\* indivisible step: no other worker runs between its read and its write.
PutAtomic(p) ==
    /\ pc[p] = "put_get"
    /\ LET u == frame[p].phone_number
           turn == Turn(now, frame[p].message, frame[p].ai_response)
           context == update_context_build(get_context(redis, now, u).ret, now,
                                           frame[p].message, frame[p].ai_response,
                                           frame[p].context.language)
       IN  /\ redis' = update_context(redis, now, u, frame[p].message,
                                      frame[p].ai_response,
                                      frame[p].context.language)
           /\ frame' = [frame EXCEPT ![p].put_context = context]
           /\ obs' = [obs EXCEPT ![p].calls.put_get = @ + 1,
                                 ![p].calls.setex = @ + 1,
                                 ![p].wrote = turn]
           /\ putLog' = [putLog EXCEPT ![u] = Append(@, turn)]
           /\ lastPut' = [lastPut EXCEPT ![u] = now]
    /\ result' = [result EXCEPT ![p] = frame[p].ai_response]
    /\ pc' = [pc EXCEPT ![p] = "done"]
    /\ UNCHANGED <<now, nreq>>

\* The language arguments of a direct call of update_context: omitted (the
\* default None; the empty string is the same empty sequence) or a code.
PutLanguages == {None, fr, sw}

\* update_context (lines 56-66) called on its own, outside generate_response:
\* the whole call is one step and returns nothing.
UpdateContext(p, phone_number, message, response, language, limit) ==
    /\ pc[p] = "idle"
    /\ nreq < limit
    /\ nreq' = nreq + 1
    /\ LET context == get_context(redis, now, phone_number).ret
       IN  /\ frame' = [frame EXCEPT ![p] =
                          [EmptyFrame EXCEPT
                              !.phone_number = phone_number,
                              !.message = message,
                              !.ai_response = response,
                              !.context.language = language,
                              !.put_context =
                                  update_context_build(context, now, message,
                                                       response, language)]]
           /\ obs' = [obs EXCEPT ![p].calls.put_get = @ + 1,
                                 ![p].calls.setex = @ + 1,
                                 ![p].session = context,
                                 ![p].wrote = Turn(now, message, response)]
    /\ redis' = update_context(redis, now, phone_number, message, response, language)
    /\ putLog' = [putLog EXCEPT ![phone_number] =
                     Append(@, Turn(now, message, response))]
    /\ lastPut' = [lastPut EXCEPT ![phone_number] = now]
    /\ pc' = [pc EXCEPT ![p] = "done"]
    /\ UNCHANGED <<now, result>>

\* Time passes; keys whose lifetime has run out disappear.
ElapseSteps == {context_ttl \div 2 - 1, context_ttl \div 2}

Elapse(d) ==
    /\ now + d <= MaxTime
    /\ now' = now + d
    /\ redis' = Expire(redis, now + d)
    /\ UNCHANGED <<pc, frame, result, nreq, obs, putLog, lastPut>>

Next ==
    \/ \E p \in Procs, u \in Users, m \in Messages : Receive(p, u, m, MaxRequests)
    \/ \E p \in Procs : ReadSession(p)
    \/ \E p \in Procs : ReadSessionFail(p)
    \/ \E p \in Procs, o \in ConcurrentOutcomes : DetectLanguage(p, o)
    \/ \E p \in Procs, r \in Replies : Invoke(p, r)
    \/ \E p \in Procs : InvokeFail(p)
    \/ \E p \in Procs : PutLoad(p)
    \/ \E p \in Procs : PutLoadFail(p)
    \/ \E p \in Procs : PutStore(p)
    \/ \E p \in Procs : PutStoreFail(p)
    \/ \E p \in Procs : Return(p)
    \/ \E d \in {context_ttl} : Elapse(d)

Spec == Init /\ [][Next]_vars

(***************************************************************************)
(* One worker serving one user, requests strictly one after another, no    *)
(* time passing: long histories.                                           *)
(***************************************************************************)
SeqProc == "p1"
SeqUser == "u1"

NextSeq ==
    \/ \E m \in Messages : Receive(SeqProc, SeqUser, m, MaxSeqRequests)
    \/ ReadSession(SeqProc)
    \/ ReadSessionFail(SeqProc)
    \/ \E o \in DetectOutcomes : DetectLanguage(SeqProc, o)
    \/ \E r \in Replies : Invoke(SeqProc, r)
    \/ InvokeFail(SeqProc)
    \/ PutLoad(SeqProc)
    \/ PutLoadFail(SeqProc)
    \/ PutStore(SeqProc)
    \/ PutStoreFail(SeqProc)
    \/ Return(SeqProc)

SpecSeq == Init /\ [][NextSeq]_vars

(***************************************************************************)
(* One worker, requests one after another, with the clock advancing in     *)
(* steps around half the lifetime: expiry and its refresh.                 *)
(***************************************************************************)
NextTTL ==
    \/ \E m \in Messages : Receive(SeqProc, SeqUser, m, MaxTTLRequests)
    \/ ReadSession(SeqProc)
    \/ ReadSessionFail(SeqProc)
    \/ \E o \in DetectOutcomes : DetectLanguage(SeqProc, o)
    \/ \E r \in Replies : Invoke(SeqProc, r)
    \/ InvokeFail(SeqProc)
    \/ PutLoad(SeqProc)
    \/ PutLoadFail(SeqProc)
    \/ PutStore(SeqProc)
    \/ PutStoreFail(SeqProc)
    \/ Return(SeqProc)
    \/ \E d \in ElapseSteps : Elapse(d)

SpecTTL == Init /\ [][NextTTL]_vars

(***************************************************************************)
(* update_context called directly, one call after another, with and        *)
(* without a language argument, and the clock advancing between calls.     *)
(***************************************************************************)
NextPut ==
    \/ \E m \in Messages, r \in Replies, l \in PutLanguages :
          UpdateContext(SeqProc, SeqUser, m, r, l, MaxPutCalls)
    \/ Return(SeqProc)
    \/ \E d \in ElapseSteps : Elapse(d)

SpecPut == Init /\ [][NextPut]_vars

(***************************************************************************)
(* Two workers serving one user, with each update_context executed as one   *)
(* indivisible step and no time passing.                                   *)
(***************************************************************************)
NextAtomic ==
    \/ \E p \in Procs, m \in Messages : Receive(p, SeqUser, m, MaxAtomicRequests)
    \/ \E p \in Procs : ReadSession(p)
    \/ \E p \in Procs : ReadSessionFail(p)
    \/ \E p \in Procs, o \in ConcurrentOutcomes : DetectLanguage(p, o)
    \/ \E p \in Procs, r \in Replies : Invoke(p, r)
    \/ \E p \in Procs : InvokeFail(p)
    \/ \E p \in Procs : PutAtomic(p)
    \/ \E p \in Procs : PutLoadFail(p)
    \/ \E p \in Procs : Return(p)

SpecAtomic == Init /\ [][NextAtomic]_vars

(***************************************************************************)
(* Two workers serving one user who always sends the same message, every   *)
(* call succeeding and no time passing: long histories under interleaving. *)
(***************************************************************************)
LongMessage == "m1"

NextLong ==
    \/ \E p \in Procs : Receive(p, SeqUser, LongMessage, MaxLongRequests)
    \/ \E p \in Procs : ReadSession(p)
    \/ \E p \in Procs, o \in ConcurrentOutcomes : DetectLanguage(p, o)
    \/ \E p \in Procs, r \in Replies : Invoke(p, r)
    \/ \E p \in Procs : PutLoad(p)
    \/ \E p \in Procs : PutStore(p)
    \/ \E p \in Procs : Return(p)

SpecLong == Init /\ [][NextLong]_vars

(***************************************************************************)
(* Properties.                                                             *)
(***************************************************************************)
Present(u) == Key(u) \in DOMAIN redis

\* What a get for user u returns in the current state.
Session(u) == get_context(redis, now, u).ret

\* This step is worker p's model call failing.
ModelFailed(p) == pc[p] = "invoke" /\ pc'[p] = "done"

\* This step is worker p's put completing (line 66 returned).
PutDone(p) == pc[p] = "put_setex" /\ pc'[p] = "done" /\ result'[p] # APOLOGY

\* C1 (bounded history): with puts one after another and no expiry, after
\* every put the stored history has at most 10 turns and is exactly the
\* last min(k, 10) of the k turns put so far, in the order they were put.
C1_BoundedHistory ==
    \A u \in Users :
        LET h == Session(u).messages
            k == Len(putLog[u])
            n == IF k < 10 THEN k ELSE 10
        IN  /\ Len(h) <= 10
            /\ Len(h) = n
            /\ \A i \in 1..n : h[i] = putLog[u][k - n + i]

\* An eleventh turn has been put and the oldest one evicted.
C1_Witness ==
    /\ Len(putLog[SeqUser]) > 10
    /\ Len(Session(SeqUser).messages) = 10
    /\ Session(SeqUser).messages[1] # putLog[SeqUser][1]

\* The request of worker p has assembled its prompt (lines 124-128 ran).
Assembled(p) ==
    \/ pc[p] \in {"invoke", "put_get", "put_setex"}
    \/ pc[p] = "done" /\ obs[p].failed # "get"

\* C2 (context window): the list sent to the model is the system prompt, then
\* the last min(5, len(h)) turns of the history h that was read, each as a user
\* entry followed by an assistant entry, oldest first, then one user entry
\* holding the new message; never more than 5 prior turns.
C2_ContextWindow ==
    \A p \in Procs :
        Assembled(p) =>
            LET h == obs[p].session.messages
                n == IF Len(h) < 5 THEN Len(h) ELSE 5
                msgs == frame[p].messages
            IN  /\ Len(msgs) = 2 * n + 2
                /\ Len(msgs) <= 12
                /\ msgs[1] = [role |-> "system",
                              content |-> get_system_prompt(frame[p].context.language)]
                /\ \A i \in 1..n :
                      /\ msgs[2 * i] =
                            [role |-> "user", content |-> h[Len(h) - n + i].user]
                      /\ msgs[2 * i + 1] =
                            [role |-> "assistant",
                             content |-> h[Len(h) - n + i].assistant]
                /\ msgs[2 * n + 2] = [role |-> "user", content |-> frame[p].message]

\* A prompt assembled from a store that holds ten turns.
C2_Witness ==
    /\ pc[SeqProc] = "invoke"
    /\ Len(obs[SeqProc].session.messages) = 10
    /\ Len(frame[SeqProc].messages) = 12

\* C3 (degrade on model failure): the step in which the model call fails
\* returns the apology and leaves the store as it was, and no earlier step of
\* the request (session read, detection) writes to the store either.
C3_DegradeOnModelFailure ==
    [][\A p \in Procs :
          /\ ModelFailed(p) => (result'[p] = APOLOGY /\ redis' = redis)
          /\ (pc[p] \in {"get_context", "detect"} /\ pc'[p] # pc[p])
                => redis' = redis]_vars

\* A request ended by a model failure while its user has a stored session.
C3_Witness ==
    \E p \in Procs :
        /\ obs[p].failed = "model"
        /\ result[p] = APOLOGY
        /\ Present(frame[p].phone_number)

\* C4 (sticky language): a request that read a session with a language and a
\* non-empty history never calls the detection capability and uses the stored
\* code for the prompt and for the turn it persists.
C4_StickyLanguage ==
    \A p \in Procs :
        LET s == obs[p].session
        IN  (/\ obs[p].calls.get = 1
             /\ obs[p].failed # "get"
             /\ s.language # None
             /\ Len(s.messages) > 0)
            => /\ obs[p].calls.detect = 0
               /\ pc[p] # "detect"
               /\ frame[p].context.language = s.language
               /\ frame[p].messages[1].content = get_system_prompt(s.language)
               /\ obs[p].calls.put_get = 1 /\ obs[p].failed # "put_get"
                     => frame[p].put_context.language = s.language

\* A request that found a stored session and completed with a reply.
C4_Witness ==
    \E p \in Procs :
        /\ pc[p] = "done"
        /\ result[p] \in Replies
        /\ Len(obs[p].session.messages) > 0
        /\ obs[p].calls.setex = 1

\* C5 (first detection wins): while a user's session stays in the store, its
\* stored language never changes to a different value.
C5_FirstDetectionWins ==
    [][\A u \in Users :
          (Present(u) /\ Key(u) \in DOMAIN redis')
             => get_context(redis', now', u).ret.language = Session(u).language]_vars

\* The codes the claim lists as supported.
SupportedCodes == {en, ar, fr, sw, ha, yo, am, zu, pt}

\* The detection replies of DetectOutcomes with surrounding whitespace removed
\* and letters lower-cased, written out by hand.
TrimmedLower ==
    (fr :> fr) @@ (<<" ", "S", "W", "\n">> :> sw) @@ (<<"e", "s">> :> <<"e", "s">>)

\* This step is worker p's detection call returning (or failing).
Detected(p) == pc[p] = "detect" /\ pc'[p] # "detect"

\* C6 as stated: the resolver returns the detection result itself when that
\* is a supported code and 'en' for any other result or a failure.
C6_AsStated ==
    [][\A p \in Procs :
          Detected(p) =>
             LET o == obs'[p].outcome
             IN  frame'[p].context.language =
                    IF o.ok /\ o.content \in SupportedCodes THEN o.content ELSE en]_vars

\* C6 (fallback normalization, amended): the resolver returns the detection
\* result stripped of surrounding whitespace and lower-cased when that is a
\* supported code, and 'en' for any other result or a failure; a detection
\* failure does not end the request: it goes on to the model call.
C6_FallbackNormalization ==
    [][\A p \in Procs :
          Detected(p) =>
             LET o == obs'[p].outcome
             IN  /\ frame'[p].context.language =
                       IF o.ok /\ TrimmedLower[o.content] \in SupportedCodes
                       THEN TrimmedLower[o.content]
                       ELSE en
                 /\ pc'[p] = "invoke"
                 /\ result'[p] = ""
                 /\ obs'[p].failed = ""]_vars

\* A request whose detection failed, resolved to 'en' and completed with the
\* model's reply.
C6_Witness ==
    \E p \in Procs :
        /\ obs[p].calls.detect = 1 /\ ~obs[p].outcome.ok
        /\ frame[p].context.language = en
        /\ result[p] \in Replies

\* C7 (TTL refresh): every completed put leaves the key with exactly 3600
\* seconds to live, whatever it had before; so at any time less than 3600
\* seconds after the last put a get returns the session, whose newest turn is
\* the one that put wrote.
C7_TTLRefresh ==
    [][/\ \A p \in Procs :
             PutDone(p) =>
                redis'[Key(frame[p].phone_number)].expire_at - now' = 3600
       /\ \A u \in Users :
             (lastPut'[u] >= 0 /\ now' - lastPut'[u] < 3600)
                => /\ Key(u) \in DOMAIN redis'
                   /\ LET h == get_context(redis', now', u).ret.messages
                      IN  /\ h # <<>>
                          /\ h[Len(h)] = putLog'[u][Len(putLog'[u])]]_vars

\* A session whose first turn is 3600 seconds old or more and is still
\* returned, because a later put refreshed the lifetime.
C7_Witness ==
    \E u \in Users :
        /\ Len(Session(u).messages) >= 2
        /\ Session(u).messages[1].timestamp + 3600 <= now
        /\ lastPut[u] > 0
        /\ now - lastPut[u] < 3600

\* C8 (expiry by inactivity): once 3600 seconds have passed since the last
\* put the key is absent and a get returns an empty history; a put that
\* starts then writes a history holding only its own turn; reads leave the
\* store, and so every lifetime, as they were.
C8_ExpiryByInactivity ==
    [][/\ \A u \in Users :
             (lastPut'[u] >= 0 /\ now' - lastPut'[u] >= 3600)
                => /\ Key(u) \notin DOMAIN redis'
                   /\ get_context(redis', now', u).ret.messages = <<>>
       /\ \A p \in Procs :
             LET u == frame[p].phone_number
             IN  /\ (/\ pc[p] = "put_get" /\ pc'[p] = "put_setex"
                     /\ lastPut[u] >= 0 /\ now - lastPut[u] >= 3600)
                       => frame'[p].put_context.messages =
                             << Turn(now, frame[p].message, frame[p].ai_response) >>
                 /\ PutDone(p)
                       => get_context(redis', now', u).ret.messages =
                             frame[p].put_context.messages
                 /\ (pc[p] \in {"get_context", "put_get"} /\ pc'[p] # pc[p])
                       => redis' = redis]_vars

\* A session has expired, a get has been served from the default in between,
\* and the next put has written a history of one turn.
C8_Witness ==
    \E u \in Users :
        /\ Len(putLog[u]) >= 2
        /\ putLog[u][1].timestamp + 3600 <= lastPut[u]
        /\ Present(u)
        /\ Len(Session(u).messages) = 1
        /\ Session(u).messages[1] = putLog[u][Len(putLog[u])]

\* C9 (get is read-only): a get, whether the one of line 118 or the one
\* inside update_context, leaves the whole store unchanged: an absent key
\* stays absent and no key's value or expiry changes.
C9_GetReadOnly ==
    [][\A p \in Procs :
          (pc[p] \in {"get_context", "put_get"} /\ pc'[p] # pc[p])
             => /\ redis' = redis
                /\ DOMAIN redis' = DOMAIN redis]_vars

\* A get has just been answered for a user with no stored session, the key is
\* still absent, and another user's session is in the store.
C9_Witness ==
    \E p \in Procs, u \in Users :
        /\ pc[p] = "detect"
        /\ obs[p].calls.get = 1
        /\ obs[p].session.messages = <<>>
        /\ ~Present(frame[p].phone_number)
        /\ Present(u)

\* C10 as stated: a get that finds no session returns an empty history and
\* no language.
C10_AsStated ==
    [][\A p \in Procs :
          (/\ pc[p] = "get_context" /\ pc'[p] \in {"detect", "invoke"}
           /\ ~Present(frame[p].phone_number))
             => /\ obs'[p].session.messages = <<>>
                /\ obs'[p].session.language = None]_vars

\* C10 (default session, amended): a get for a user with no stored session,
\* or whose session has expired, returns an empty history and the language
\* 'en'; a get for a stored, unexpired session returns exactly the history and
\* the language held in the stored value, turn by turn and in order.
C10_DefaultSession ==
    \A u \in Users :
        IF ~Present(u)
        THEN Session(u) = [messages |-> <<>>, language |-> <<"e", "n">>,
                           business_context |-> <<>>]
        ELSE LET stored == redis[Key(u)].value
                 history == stored[1][2]
             IN  /\ stored[1][1] = "messages" /\ stored[2][1] = "language"
                 /\ Session(u).language = stored[2][2]
                 /\ Len(Session(u).messages) = Len(history)
                 /\ \A i \in 1..Len(history) :
                       Session(u).messages[i] =
                          [timestamp |-> history[i][1][2],
                           user      |-> history[i][2][2],
                           assistant |-> history[i][3][2]]

\* One request has just read the default for a user with no session while
\* another user's session, stored with a language other than 'en', is
\* returned as its put stored it.
C10_Witness ==
    \E p \in Procs, q \in Procs :
        /\ pc[p] = "detect" /\ ~Present(frame[p].phone_number)
        /\ obs[p].session.messages = <<>> /\ obs[p].session.language = en
        /\ pc[q] = "done" /\ obs[q].calls.setex = 1
        /\ Session(frame[q].phone_number) = frame[q].put_context
        /\ Session(frame[q].phone_number).language # en

\* C11 (lost-update race): a completing put replaces the stored history by
\* the history it read at line 57 plus its own turn, whatever other puts for
\* the same user have completed since that read; so two requests that both
\* read before either writes leave only the turn of the later write.
C11_LostUpdate ==
    [][\A p \in Procs :
          PutDone(p) =>
             LET h == get_context(redis', now', frame[p].phone_number).ret.messages
             IN  /\ h = frame[p].put_context.messages
                 /\ h[Len(h)] = obs[p].wrote]_vars

\* Two requests of one user have both completed with a reply, two puts are
\* logged, and the store holds only the turn of the later one.
C11_Witness ==
    \E p \in Procs, q \in Procs, u \in Users :
        /\ p # q
        /\ frame[p].phone_number = u /\ frame[q].phone_number = u
        /\ pc[p] = "done" /\ result[p] \in Replies
        /\ pc[q] = "done" /\ result[q] \in Replies
        /\ now = 0
        /\ putLog[u] = << obs[p].wrote, obs[q].wrote >>
        /\ obs[p].wrote # obs[q].wrote
        /\ Session(u).messages = << obs[q].wrote >>

\* C12 (no failure escapes): a request in which a storage read, a storage
\* write or the model call failed has returned, and returned the apology; a
\* request in which none failed returned the model's reply; so every result is
\* the reply or the apology.
C12_NoFailureEscapes ==
    \A p \in Procs :
        /\ obs[p].failed # "" => pc[p] = "done" /\ result[p] = APOLOGY
        /\ pc[p] = "done" =>
              /\ result[p] \in Replies \cup {APOLOGY}
              /\ obs[p].failed \in {"", "get", "model", "put_get", "setex"}
              /\ obs[p].failed = "" => result[p] = frame[p].ai_response
              /\ result[p] = APOLOGY => obs[p].failed # ""

\* One request has returned after its storage write failed, another after
\* its storage read failed.
C12_Witness ==
    \E p \in Procs, q \in Procs :
        /\ pc[p] = "done" /\ obs[p].failed = "setex" /\ result[p] = APOLOGY
        /\ pc[q] = "done" /\ obs[q].failed = "get" /\ result[q] = APOLOGY

\* This step is a direct call of update_context by worker p.
PutCalled(p) == pc[p] = "idle" /\ pc'[p] = "done"

\* C13 (put language rule): after a put the stored language is the supplied
\* one when it is non-empty and otherwise the language of the session the put
\* loaded; in both cases the turn is appended to the loaded history (cut to
\* the last 10) and the key expires context_ttl after the put.
C13_PutLanguage ==
    [][\A p \in Procs :
          PutCalled(p) =>
             LET u == frame'[p].phone_number
                 language == frame'[p].context.language
                 before == get_context(redis, now, u).ret
                 after == get_context(redis', now', u).ret
             IN  /\ after.language =
                       IF language # None THEN language ELSE before.language
                 /\ after.messages =
                       LastN(Append(before.messages,
                                    Turn(now, frame'[p].message, frame'[p].ai_response)),
                             HISTORY_LIMIT)
                 /\ redis'[Key(u)].expire_at = now + context_ttl]_vars

\* A put without a language has been made, some time after the previous put,
\* on a live session whose language is not the default: the language is kept,
\* the turn is there and the lifetime starts again.
C13_Witness ==
    /\ pc[SeqProc] = "done"
    /\ frame[SeqProc].context.language = None
    /\ obs[SeqProc].session.language = fr
    /\ Len(obs[SeqProc].session.messages) = 1
    /\ obs[SeqProc].session.messages[1].timestamp < now
    /\ Session(SeqUser).language = fr
    /\ Len(Session(SeqUser).messages) = 2
    /\ redis[Key(SeqUser)].expire_at = now + context_ttl

C15_PersistAfterInvoke ==
    [][/\ (now' = now /\ redis' # redis) =>
             \E p \in Procs :
                 /\ PutDone(p)
                 /\ obs[p].calls.model = 1
                 /\ obs[p].failed = ""
                 /\ frame[p].ai_response \in Replies
       /\ \A p \in Procs :
             /\ PutDone(p) =>
                   LET after == get_context(redis', now', frame[p].phone_number).ret
                       turn == after.messages[Len(after.messages)]
                   IN  /\ turn.user = frame[p].message
                       /\ turn.assistant = result'[p]
                       /\ after.language = frame[p].context.language
                       /\ frame[p].messages[1].content =
                             get_system_prompt(after.language)
             /\ (pc'[p] = "done" /\ result'[p] \in Replies) =>
                   /\ obs'[p].calls.model = 1
                   /\ obs'[p].calls.setex = 1
             /\ obs'[p].calls.setex = 1 => obs'[p].calls.model = 1]_vars

\* A request has returned the reply after detecting 'sw' on a first turn and
\* writing it, while the other worker's request degraded without writing.
C15_Witness ==
    \E p \in Procs, q \in Procs :
        /\ pc[p] = "done" /\ result[p] \in Replies
        /\ frame[p].context.language = sw
        /\ Session(frame[p].phone_number).language = sw
        /\ Session(frame[p].phone_number).messages = << obs[p].wrote >>
        /\ pc[q] = "done" /\ obs[q].failed = "model"
        /\ ~Present(frame[q].phone_number)

\* The capability calls a request has made so far.
CallSum(c) == c.get + c.detect + c.model + c.put_get + c.setex

\* Some step of worker p's running request.
StepOf(p) ==
    \/ ReadSession(p) \/ ReadSessionFail(p)
    \/ \E o \in ConcurrentOutcomes : DetectLanguage(p, o)
    \/ \E r \in Replies : Invoke(p, r)
    \/ InvokeFail(p)
    \/ PutLoad(p) \/ PutLoadFail(p)
    \/ PutStore(p) \/ PutStoreFail(p)

\* C16 (straight pipeline, no retry): a running request can always take its
\* next step, every step is one capability call and no capability is called
\* twice (one session read by generate_response, one detection, one model
\* call, one put made of one read and one write), so the request ends after at
\* most five calls; it ends either with the reply or with the apology; and
\* once a call has failed the request has ended and calls nothing more.
C16_StraightPipeline ==
    /\ [](\A p \in Procs : pc[p] \notin {"idle", "done"} => ENABLED StepOf(p))
    /\ [][\A p \in Procs :
             /\ \A k \in DOMAIN NoCalls : obs'[p].calls[k] <= 1
             /\ (pc[p] \notin {"idle", "done"} /\ obs'[p] # obs[p]) =>
                   CallSum(obs'[p].calls) = CallSum(obs[p].calls) + 1
             /\ (pc[p] \notin {"idle", "done"} /\ pc'[p] # pc[p]) =>
                   obs'[p] # obs[p]
             /\ obs[p].failed # "" =>
                   \/ obs'[p] = obs[p]
                   \/ obs'[p] = EmptyObs
             /\ obs'[p].failed # "" =>
                   pc'[p] = "done" /\ result'[p] = APOLOGY
             /\ pc'[p] = "done" =>
                   \/ result'[p] \in Replies /\ obs'[p].failed = ""
                   \/ result'[p] = APOLOGY /\ obs'[p].failed # ""]_vars

\* One request has ended with the reply after all five calls, the other with
\* the apology after its model call failed, having made three calls.
C16_Witness ==
    \E p \in Procs, q \in Procs :
        /\ pc[p] = "done" /\ result[p] \in Replies
        /\ CallSum(obs[p].calls) = 5
        /\ pc[q] = "done" /\ obs[q].failed = "model"
        /\ obs[q].calls = [NoCalls EXCEPT !.get = 1, !.detect = 1, !.model = 1]

\* C17 (atomic put closes the race): when each put runs as one indivisible
\* step, then with no expiry and at most 10 turns the stored history is at
\* every moment the sequence of the turns of all completed puts, each once,
\* in the order the puts completed, also when both requests read the session
\* before either put.
C17_AtomicPut ==
    \A u \in Users :
        Len(putLog[u]) <= HISTORY_LIMIT =>
            /\ Session(u).messages = putLog[u]
            /\ \A p \in Procs :
                  (pc[p] = "done" /\ result[p] \in Replies
                      /\ frame[p].phone_number = u) =>
                     \E i \in 1..Len(putLog[u]) : Session(u).messages[i] = obs[p].wrote

\* Both requests read the empty session before either put; both completed
\* and both turns are stored, in the order of the puts.
C17_Witness ==
    \E p \in Procs, q \in Procs :
        /\ p # q
        /\ pc[p] = "done" /\ result[p] \in Replies
        /\ pc[q] = "done" /\ result[q] \in Replies
        /\ obs[p].session.messages = <<>>
        /\ obs[q].session.messages = <<>>
        /\ obs[p].wrote # obs[q].wrote
        /\ Session(SeqUser).messages = << obs[p].wrote, obs[q].wrote >>

\* This step is worker p's session read at line 118 returning.
SessionRead(p) == pc[p] = "get_context" /\ pc'[p] \in {"detect", "invoke"}

\* C18 (detection trigger): a request goes on to call detection exactly when
\* the session it read has no language or an empty history, which is exactly
\* when the store held no unexpired session of that user at the read; a
\* request past that point has called detection once in that case and not at
\* all otherwise.
C18_DetectionTrigger ==
    [][\A p \in Procs :
          /\ SessionRead(p) =>
                LET context == obs'[p].session
                    stored == redis_get(redis, now, Key(frame[p].phone_number))
                IN  /\ pc'[p] = "detect" <=>
                          (context.language = None \/ Len(context.messages) = 0)
                    /\ pc'[p] = "detect" <=> stored = None
          /\ Assembled(p)' =>
                /\ obs'[p].calls.detect \in {0, 1}
                /\ obs'[p].calls.detect = 1 <=>
                      (obs'[p].session.language = None
                          \/ Len(obs'[p].session.messages) = 0)]_vars

\* One request detected on a first turn and stored it; the next request of
\* that user read the stored session and built its prompt without detecting.
C18_Witness ==
    \E p \in Procs, q \in Procs :
        /\ pc[q] = "done" /\ result[q] \in Replies
        /\ obs[q].calls.detect = 1 /\ obs[q].session = DefaultContext
        /\ pc[p] = "invoke" /\ obs[p].calls.detect = 0
        /\ obs[p].session.messages = << obs[q].wrote >>

Serving(p) ==
    IF frame[p].phone_number # "" THEN frame[p].phone_number
    ELSE frame'[p].phone_number

\* C20 (per-user isolation): a step of a request for user A leaves the stored
\* session of every other user B as it was: present or absent as before, with
\* the same value and the same expiry; and every turn stored for a user is one
\* that a put for that user wrote.
C20_Isolation ==
    [][/\ \A p \in Procs :
             pc'[p] # pc[p] =>
                \A u \in Users \ {Serving(p)} :
                    /\ (Key(u) \in DOMAIN redis') = (Key(u) \in DOMAIN redis)
                    /\ Key(u) \in DOMAIN redis => redis'[Key(u)] = redis[Key(u)]
       /\ \A u \in Users :
             Key(u) \in DOMAIN redis' =>
                LET h == json_loads(redis'[Key(u)].value).messages
                IN  \A i \in 1..Len(h) :
                        \E j \in 1..Len(putLog'[u]) : h[i] = putLog'[u][j]]_vars

\* Requests for two users have both completed, with different messages; each
\* user's stored history is that user's own turn.
C20_Witness ==
    \E p \in Procs, q \in Procs :
        /\ pc[p] = "done" /\ result[p] \in Replies
        /\ pc[q] = "done" /\ result[q] \in Replies
        /\ frame[p].phone_number # frame[q].phone_number
        /\ frame[p].message # frame[q].message
        /\ Session(frame[p].phone_number).messages = << obs[p].wrote >>
        /\ Session(frame[q].phone_number).messages = << obs[q].wrote >>

====
